---- MODULE Spec2Model ----
(***************************************************************************)
(* Model of nps_range.h (namespace nps): range<_Ty>, range_iterator,       *)
(* circular_range / circular_range_iterator and patterned_range /          *)
(* patterned_range_iterator, for an integral _Ty (int) and                 *)
(* step_type = long long.                                                  *)
(*                                                                         *)
(* The state is one client program that owns a range object r, calls its   *)
(* member functions on it (each call is one action, the receiver being     *)
(* replaced by the returned range for the transformations), and runs the   *)
(* loop  for (it = begin(); it != end(); ++it)  that dereferences it,      *)
(* one loop iteration per action over the three iterator classes.  prev,   *)
(* lastOp, arg and ret hold the last call's receiver, name, arguments and  *)
(* returned value until the statement that made the call ends.             *)
(*                                                                         *)
(* The build modelled is the one without _DEBUG: _NPS_ASSERT expands to    *)
(* nothing and a requested step of 0 is coerced to 1 (lines 327-329).      *)
(* All values stay within -MaxVal..MaxVal and all steps within             *)
(* -MaxStep..MaxStep, far from the limits of int, so static_cast<_Ty> of a *)
(* step is the identity and no arithmetic of the model wraps.              *)
(***************************************************************************)
EXTENDS Integers, Sequences, FiniteSets

VARIABLES
    r,       \* the range object: [m_start, m_end, m_step]
    prev,    \* the receiver as it was before the last call
    lastOp,  \* name of the last member function called
    arg,     \* the arguments of the last call
    ret,     \* what the last query returned
    it,      \* the loop's iterator (begin(), then incremented)
    last,    \* the loop's end() iterator
    out,     \* the values the loop has dereferenced so far
    pc       \* "idle" | "called" | "loop" | "done"

vars == <<r, prev, lastOp, arg, ret, it, last, out, pc>>

(* ------------------------------ bounds -------------------------------- *)

MaxVal == 3      \* start, end and every value lie in -MaxVal..MaxVal
MaxStep == 2     \* requested and stored steps lie in -MaxStep..MaxStep
MaxIdx == 2      \* slice indices lie in 0..MaxIdx
MaxCount == 3    \* circular counts lie in 0..MaxCount
MaxFactor == 2   \* scale factors lie in -MaxFactor..MaxFactor

Vals == (-MaxVal)..MaxVal
Steps == (-MaxStep)..MaxStep
Fuel == 2 * MaxVal + 2

(* ------------------------ C++ integer arithmetic ---------------------- *)

\* abs() of <cstdlib>
Abs(x) == IF x < 0 THEN -x ELSE x

\* C++ integer division truncates toward zero (b # 0)
CDiv(a, b) ==
    LET q == Abs(a) \div Abs(b)
    IN  IF (a < 0) = (b < 0) THEN q ELSE -q

\* C++ remainder has the sign of the dividend (b # 0)
CRem(a, b) == a - b * CDiv(a, b)

Max(a, b) == IF a < b THEN b ELSE a
Min(a, b) == IF b < a THEN b ELSE a

(* ------------------------------ range --------------------------------- *)

Range(s, e, st) == [m_start |-> s, m_end |-> e, m_step |-> st]

\* a reset() that takes the caller's step with its sign
reset_keep_sign(start, end, step0) ==
    LET s1 == IF step0 = 0 THEN 1 ELSE step0
    IN  Range(start, end, IF start = end THEN 0 ELSE s1)

\* range::reset, and so the constructor range(start, end, step)
reset(start, end, step0) ==
    LET s1 == IF step0 = 0 THEN 1 ELSE step0
        st == IF start <= end THEN Abs(s1)
              ELSE IF s1 > 0 THEN s1 * (-1) ELSE s1
    IN  Range(start, end, IF start = end THEN 0 ELSE st)

\* range::step
step(rg, new_step) == reset(rg.m_start, rg.m_end, new_step)

\* range::reverse
reverse(rg) ==
    IF rg.m_step < 0
    THEN reset(rg.m_end + 1, rg.m_start + 1, -rg.m_step)
    ELSE reset(rg.m_end - 1, rg.m_start - 1, -rg.m_step)

\* range::scale
scale(rg, factor) ==
    reset(rg.m_start * factor, rg.m_end * factor, rg.m_step * factor)

\* an intersection() that takes the larger of the two ends
intersection_max_end(rg, other) ==
    LET new_start == Max(rg.m_start, other.m_start)
        new_end   == Max(rg.m_end, other.m_end)
    IN  IF new_start >= new_end THEN reset(new_start, new_start, 1)
        ELSE reset(new_start, new_end, rg.m_step)

\* range::intersection
intersection(rg, other) ==
    LET new_start == Max(rg.m_start, other.m_start)
        new_end   == Min(rg.m_end, other.m_end)
    IN  IF new_start >= new_end THEN reset(new_start, new_start, 1)
        ELSE reset(new_start, new_end, rg.m_step)

\* range::nth_step
nth_step(rg, n) == rg.m_start + rg.m_step * (n - 1)

\* range::slice
slice(rg, start_index, end_index) ==
    reset(nth_step(rg, start_index + 1), nth_step(rg, end_index + 1), rg.m_step)

\* range::odd
odd(rg) ==
    reset(IF CRem(rg.m_start, 2) = 1 THEN rg.m_start ELSE rg.m_start + 1,
          rg.m_end, 2)

\* range::even
even(rg) ==
    reset(IF CRem(rg.m_start, 2) = 0 THEN rg.m_start ELSE rg.m_start + 1,
          rg.m_end, 2)

\* range::size, the integral branch
size(rg) ==
    IF rg.m_start = rg.m_end THEN 0
    ELSE Abs(CDiv(rg.m_end - rg.m_start, Abs(rg.m_step)))

\* a contains() that evaluates the remainder before the bounds
contains_rem_first(rg, value) ==
    IF rg.m_step > 0
    THEN [div0 |-> FALSE,
          val  |-> value >= rg.m_start /\ value < rg.m_end
                   /\ CRem(value - rg.m_start, rg.m_step) = 0]
    ELSE IF rg.m_step = 0
         THEN [div0 |-> TRUE, val |-> FALSE]
         ELSE [div0 |-> FALSE,
               val  |-> value <= rg.m_start /\ value >= rg.m_end
                        /\ CRem(rg.m_start - value, -rg.m_step) = 0]

\* range::contains; div0 records that a % with a zero divisor was evaluated
\* (&& evaluates its right operand only when the left one is true)
contains(rg, value) ==
    IF rg.m_step > 0
    THEN [div0 |-> FALSE,
          val  |-> value >= rg.m_start /\ value < rg.m_end
                   /\ CRem(value - rg.m_start, rg.m_step) = 0]
    ELSE IF value <= rg.m_start /\ value > rg.m_end
         THEN IF rg.m_step = 0
              THEN [div0 |-> TRUE, val |-> FALSE]
              ELSE [div0 |-> FALSE,
                    val  |-> CRem(rg.m_start - value, -rg.m_step) = 0]
         ELSE [div0 |-> FALSE, val |-> FALSE]

\* range::swap of two distinct objects (std::addressof(right) != this): the
\* two objects after the exchange of m_start, m_end and m_step
swap(left, right) == <<right, left>>

\* range::operator==
range_eq(left, right) ==
    left.m_start = right.m_start /\ left.m_end = right.m_end
    /\ left.m_step = right.m_step

(* -------------------------- range_iterator ---------------------------- *)

Iter(kind, value, st, start, end, max, count, fn) ==
    [kind |-> kind, m_value |-> value, m_step |-> st, m_start |-> start,
     m_end |-> end, m_max |-> max, m_count |-> count, m_pattern_func |-> fn]

NoIter == Iter("none", 0, 0, 0, 0, 0, 0, "none")

\* range::begin
range_begin(rg) == Iter("range", rg.m_start, rg.m_step, 0, 0, 0, 0, "none")

\* range::end
range_end(rg) == Iter("range", rg.m_end, rg.m_step, 0, 0, 0, 0, "none")

\* a termination test by value equality
range_iterator_eq_exact(a, b) == a.m_value = b.m_value

\* range_iterator::operator==
range_iterator_eq(a, b) ==
    IF a.m_step = b.m_step /\ a.m_step > 0
    THEN a.m_value >= b.m_value
    ELSE a.m_value <= b.m_value

\* range_iterator::operator++ (static_cast<_Ty>(m_step) = m_step here)
range_iterator_inc(a) == [a EXCEPT !.m_value = a.m_value + a.m_step]

\* range::to_vector: the loop for (item : *this) emplace_back(item), cut
\* after fuel iterations
RECURSIVE to_vector_from(_, _, _)
to_vector_from(a, b, fuel) ==
    IF fuel = 0 \/ range_iterator_eq(a, b) THEN <<>>
    ELSE <<a.m_value>> \o to_vector_from(range_iterator_inc(a), b, fuel - 1)

to_vector(rg) == to_vector_from(range_begin(rg), range_end(rg), Fuel)

(* ---------------- circular_range, circular_range_iterator -------------- *)

\* circular_range::reset, reached from range::circular(count)
circular_range_reset(start, end, step0, count) ==
    LET s1 == IF step0 = 0 THEN 1 ELSE step0
        st == IF start <= end THEN Abs(s1)
              ELSE IF s1 > 0 THEN s1 * (-1) ELSE s1
    IN  [m_start |-> start, m_end |-> end, m_step |-> st, m_count |-> count]

\* range::circular
circular(rg, count) == circular_range_reset(rg.m_start, rg.m_end, rg.m_step, count)

\* circular_range_iterator's constructor
circular_range_iterator(start, end, st, count) ==
    Iter("circular", start, st, start, end, count, 0, "none")

\* circular_range::begin
circular_begin(c) == circular_range_iterator(c.m_start, c.m_end, c.m_step, c.m_count)

\* circular_range::end
circular_end(c) == circular_range_iterator(c.m_end, c.m_end, c.m_step, c.m_count)

\* an operator++ that counts but never wraps the cursor
circular_range_iterator_inc_nowrap(a) ==
    LET b == range_iterator_inc(a)
    IN  IF b.m_max # 0 THEN [b EXCEPT !.m_count = b.m_count + 1] ELSE b

\* circular_range_iterator::operator++
circular_range_iterator_inc(a) ==
    LET b == range_iterator_inc(a)
        c == IF b.m_step > 0 /\ b.m_value >= b.m_end
             THEN [b EXCEPT !.m_value = b.m_start]
             ELSE IF b.m_step < 0 /\ b.m_value <= b.m_end
                  THEN [b EXCEPT !.m_value = b.m_start]
                  ELSE b
    IN  IF c.m_max # 0 THEN [c EXCEPT !.m_count = c.m_count + 1] ELSE c

\* circular_range_iterator::operator==
circular_range_iterator_eq(a, b) ==
    a.m_max = b.m_max /\ a.m_max = a.m_count /\ a.m_max # 0

(* --------------- patterned_range, patterned_range_iterator ------------- *)

\* The pattern functions a caller can hand over: the default argument of
\* patterned_range's constructors and reset, and two functions of the caller.
PatternFuns == {"default", "succ", "pred"}

\* the default argument  [](_Ty v)->_Ty { return v++; }  : the post-increment
\* yields v's old value, and the incremented copy dies with the call
default_pattern_fun(v) == v

\* m_pattern_func(m_value)
pattern_call(fn, v) ==
    CASE fn = "default" -> default_pattern_fun(v)
      [] fn = "succ" -> v + 1
      [] fn = "pred" -> v - 1

\* patterned_range::reset, and so patterned_range(start, end, pattern_fun)
patterned_range_reset(start, end, pattern_fun) ==
    [m_start |-> start, m_end |-> end, m_negative |-> (start > end),
     m_pattern_fun |-> pattern_fun]

\* patterned_range::begin
patterned_begin(p) ==
    Iter("patterned", p.m_start, IF p.m_negative THEN -1 ELSE 1, 0, 0, 0, 0,
         p.m_pattern_fun)

\* patterned_range::end
patterned_end(p) ==
    Iter("patterned", p.m_end, IF p.m_negative THEN -1 ELSE 1, 0, 0, 0, 0,
         p.m_pattern_fun)

\* patterned_range_iterator::operator++
patterned_range_iterator_inc(a) ==
    [a EXCEPT !.m_value = pattern_call(a.m_pattern_func, a.m_value)]

\* patterned_range_iterator::operator==
patterned_range_iterator_eq(a, b) ==
    a.m_pattern_func = b.m_pattern_func /\ range_iterator_eq(a, b)

(* ------------------------------ the client ----------------------------- *)

InBounds(rg) == rg.m_start \in Vals /\ rg.m_end \in Vals /\ rg.m_step \in Steps

NoArg == [none |-> TRUE]
NoRet == [none |-> TRUE]

Init ==
    /\ \E a \in Vals, b \in Vals, s \in Steps :
          /\ r = reset(a, b, s)
          /\ arg = [start |-> a, end |-> b, step |-> s]
    /\ prev = r
    /\ lastOp = "range"
    /\ ret = NoRet
    /\ it = NoIter
    /\ last = NoIter
    /\ out = <<>>
    /\ pc = "called"

\* a call r = r.f(...) or r.f(...) made outside a loop
Call(op, a, result, returned) ==
    /\ pc = "idle"
    /\ InBounds(result)
    /\ r' = result
    /\ prev' = r
    /\ lastOp' = op
    /\ arg' = a
    /\ ret' = returned
    /\ pc' = "called"
    /\ UNCHANGED <<it, last, out>>

Reset ==
    \E a \in Vals, b \in Vals, s \in Steps :
        Call("reset", [start |-> a, end |-> b, step |-> s], reset(a, b, s), NoRet)

Step ==
    \E s \in Steps : Call("step", [new_step |-> s], step(r, s), NoRet)

Reverse == Call("reverse", NoArg, reverse(r), NoRet)

Scale ==
    \E f \in (-MaxFactor)..MaxFactor :
        Call("scale", [factor |-> f], scale(r, f), NoRet)

Intersection ==
    \E other \in {reset(a, b, s) : a \in Vals, b \in Vals, s \in Steps} :
            Call("intersection", [other |-> other], intersection(r, other), NoRet)

Slice ==
    \E i \in 0..MaxIdx, j \in 0..MaxIdx :
        /\ i <= j
        /\ Call("slice", [start_index |-> i, end_index |-> j], slice(r, i, j), NoRet)

Odd == Call("odd", NoArg, odd(r), NoRet)

Even == Call("even", NoArg, even(r), NoRet)

\* r.swap(right) with a second range object right
Swap ==
    \E right \in {reset(a, b, s) : a \in Vals, b \in Vals, s \in Steps} :
        LET both == swap(r, right)
        IN  Call("swap", [right |-> both[2]], both[1], NoRet)

Size == Call("size", NoArg, r, [val |-> size(r)])

Contains ==
    \E v \in Vals : Call("contains", [value |-> v], r, contains(r, v))

ToVector == Call("to_vector", NoArg, r, [val |-> to_vector(r)])

\* for (it = begin(); it != end(); ++it): the loop's initialisation
StartLoop(op, a, b, e) ==
    /\ pc = "idle"
    /\ it' = b
    /\ last' = e
    /\ out' = <<>>
    /\ pc' = "loop"
    /\ lastOp' = op
    /\ arg' = a
    /\ prev' = r
    /\ ret' = NoRet
    /\ UNCHANGED r

BeginRange == StartLoop("begin", NoArg, range_begin(r), range_end(r))

BeginCircular ==
    \E n \in 0..MaxCount :
        LET c == circular(r, n)
        IN  StartLoop("circular", [count |-> n], circular_begin(c), circular_end(c))

BeginPatterned ==
    \E fn \in PatternFuns :
        LET p == patterned_range_reset(r.m_start, r.m_end, fn)
        IN  StartLoop("patterned", [pattern_fun |-> fn],
                      patterned_begin(p), patterned_end(p))

\* it != end() is false
iter_eq(a, b) ==
    CASE a.kind = "range" -> range_iterator_eq(a, b)
      [] a.kind = "circular" -> circular_range_iterator_eq(a, b)
      [] a.kind = "patterned" -> patterned_range_iterator_eq(a, b)

\* ++it
iter_inc(a) ==
    CASE a.kind = "range" -> range_iterator_inc(a)
      [] a.kind = "circular" -> circular_range_iterator_inc(a)
      [] a.kind = "patterned" -> patterned_range_iterator_inc(a)

\* one iteration: it != end() holds, the body reads *it, then ++it
LoopStep ==
    /\ pc = "loop"
    /\ ~iter_eq(it, last)
    /\ Len(out) < Fuel
    /\ it.m_value \in Vals
    /\ out' = Append(out, it.m_value)
    /\ it' = iter_inc(it)
    /\ UNCHANGED <<r, prev, lastOp, arg, ret, last, pc>>

\* it != end() fails: the loop is left
LoopExit ==
    /\ pc = "loop"
    /\ iter_eq(it, last)
    /\ pc' = "done"
    /\ UNCHANGED <<r, prev, lastOp, arg, ret, it, last, out>>

\* the statement that made the call ends: the receiver's old copy, the
\* arguments and the returned value go out of scope
Discard ==
    /\ pc = "called"
    /\ pc' = "idle"
    /\ prev' = r
    /\ lastOp' = "none"
    /\ arg' = NoArg
    /\ ret' = NoRet
    /\ UNCHANGED <<r, it, last, out>>

\* the caller leaves a running loop (break)
Break ==
    /\ pc = "loop"
    /\ pc' = "idle"
    /\ it' = NoIter
    /\ last' = NoIter
    /\ out' = <<>>
    /\ lastOp' = "none"
    /\ arg' = NoArg
    /\ UNCHANGED <<r, prev, ret>>

\* the iterators go out of scope after the loop
Finish ==
    /\ pc = "done"
    /\ pc' = "idle"
    /\ it' = NoIter
    /\ last' = NoIter
    /\ out' = <<>>
    /\ lastOp' = "none"
    /\ arg' = NoArg
    /\ UNCHANGED <<r, prev, ret>>

Next ==
    \/ Reset \/ Step \/ Reverse \/ Scale \/ Intersection \/ Slice
    \/ Odd \/ Even \/ Swap \/ Size \/ Contains \/ ToVector
    \/ BeginRange \/ BeginCircular \/ BeginPatterned
    \/ Discard \/ LoopStep \/ LoopExit \/ Break \/ Finish

Spec == Init /\ [][Next]_vars

(* ------------------------- what the claims say ------------------------ *)

\* The values start + k*s, k = 0, 1, 2, ..., that lie strictly before end in
\* the direction of s, in order.
StrictlyBefore(v, end, s) ==
    IF s > 0 THEN v < end ELSE IF s < 0 THEN v > end ELSE FALSE

SteppedValues(start, end, s) ==
    LET n == Cardinality({k \in 0..Abs(end - start) :
                             StrictlyBefore(start + k * s, end, s)})
    IN  [k \in 1..n |-> start + (k - 1) * s]

IsPrefix(p, q) == Len(p) <= Len(q) /\ p = SubSeq(q, 1, Len(p))

Elems(q) == {q[k] : k \in 1..Len(q)}

Rev(q) == [k \in 1..Len(q) |-> q[Len(q) + 1 - k]]

CeilDiv(a, b) == (a + b - 1) \div b

\* The direction of step agrees with the direction from start to end.
StepAgrees(rg) ==
    /\ (rg.m_step = 0) <=> (rg.m_start = rg.m_end)
    /\ (rg.m_start < rg.m_end) => rg.m_step > 0
    /\ (rg.m_start > rg.m_end) => rg.m_step < 0

\* range(a, b) with a <= b: ascending, step 1 (step 0 when a = b)
AscendingUnit(rg) ==
    rg.m_start <= rg.m_end /\ rg = reset(rg.m_start, rg.m_end, 1)

Constructed == pc = "called" /\ lastOp \in {"range", "reset"}
Called(op) == pc = "called" /\ lastOp = op
InLoop(kind) == pc \in {"loop", "done"} /\ it.kind = kind

\* C1: range(start, end, step) with a nonzero requested step stores the bounds
\* and the step s = +|step| (start < end) or -|step| (start > end), and the loop
\* from begin() until the iterator compares equal to end() yields, in order,
\* exactly the values start + k*s strictly before end, and then stops: it never
\* yields more, it is left only when all of them were yielded, and once they
\* were, the iterator compares equal to end().
C1_IterationYieldsSteppedValues ==
    /\ (Constructed /\ arg.step # 0) =>
          /\ r.m_start = arg.start /\ r.m_end = arg.end
          /\ (arg.start < arg.end) => r.m_step = Abs(arg.step)
          /\ (arg.start > arg.end) => r.m_step = -Abs(arg.step)
    /\ InLoop("range") =>
          LET expected == SteppedValues(r.m_start, r.m_end, r.m_step)
          IN  /\ IsPrefix(out, expected)
              /\ (out = expected) <=> range_iterator_eq(it, last)
              /\ (pc = "done") => out = expected

\* C1 witness: a finished descending loop whose end is not a whole number of
\* steps away from start
C1_Witness ==
    /\ InLoop("range") /\ pc = "done"
    /\ r.m_step = -2 /\ r.m_start - r.m_end = 3
    /\ out = <<r.m_start, r.m_start - 2>>

\* C2: for a < b and step > 0, size() is ceil((b - a) / step), the number of
\* values iteration produces.
C2_SizeIsCeiling ==
    (Called("size") /\ r.m_start < r.m_end) =>
        /\ ret.val = CeilDiv(r.m_end - r.m_start, r.m_step)
        /\ ret.val = Len(to_vector(r))

\* C3: iterating r.reverse() visits the values of r in the opposite order.
C3_ReverseVisitsSameValues ==
    Called("reverse") => to_vector(r) = Rev(to_vector(prev))

\* C4: r.reverse().reverse() == r, also for the empty range (a == b).
C4_ReverseRoundTrip ==
    Called("reverse") => range_eq(reverse(r), prev)

\* C5: contains(v) is true exactly when iteration of r produces v: for step > 0
\* start <= v < end and (v - start) % step == 0, for step < 0 end < v <= start
\* and (start - v) % (-step) == 0, false for the empty range, and no remainder
\* by zero is evaluated.
C5_ContainsIsMembership ==
    Called("contains") =>
        LET v == arg.value
        IN  /\ ~ret.div0
            /\ ret.val <=> (v \in Elems(to_vector(r)))
            /\ (r.m_step > 0) =>
                  (ret.val <=> /\ r.m_start <= v /\ v < r.m_end
                               /\ (v - r.m_start) % r.m_step = 0)
            /\ (r.m_step < 0) =>
                  (ret.val <=> /\ r.m_end < v /\ v <= r.m_start
                               /\ (r.m_start - v) % (-r.m_step) = 0)
            /\ (r.m_start = r.m_end) => ~ret.val

\* C5 witness: a descending range with a step of 2 that contains a value other
\* than its start
C5_Witness ==
    /\ Called("contains") /\ r.m_step = -2
    /\ ret.val /\ arg.value # r.m_start

\* C6: for 0 <= i <= j below the number of values of r, iterating r.slice(i, j)
\* yields nth_step(i+1), ..., nth_step(j+1): j - i + 1 values.
C6_SliceIsInclusive ==
    (Called("slice") /\ arg.end_index < Len(to_vector(prev))) =>
        /\ to_vector(r) = [k \in 1..(arg.end_index - arg.start_index + 1) |->
                              nth_step(prev, arg.start_index + k)]
        /\ to_vector(r) = SubSeq(to_vector(prev), arg.start_index + 1,
                                 arg.end_index + 1)

\* C7: for ascending step-1 ranges A and B, iterating A.intersection(B) yields
\* the values both produce, ascending, and when max(a1, a2) >= min(b1, b2) the
\* result is the empty range (new_start, new_start) with stored step 0.
C7_IntersectionOfUnitRanges ==
    (Called("intersection") /\ AscendingUnit(prev) /\ AscendingUnit(arg.other)) =>
        LET new_start == Max(prev.m_start, arg.other.m_start)
            new_end   == Min(prev.m_end, arg.other.m_end)
            common(v) == v \in Elems(to_vector(arg.other))
        IN  /\ to_vector(r) = SelectSeq(to_vector(prev), common)
            /\ (new_start >= new_end) =>
                  /\ r = Range(new_start, new_start, 0)
                  /\ to_vector(r) = <<>>

\* C7 witness: two overlapping ranges, neither inside the other
C7_Witness ==
    /\ Called("intersection") /\ AscendingUnit(prev) /\ AscendingUnit(arg.other)
    /\ prev.m_start < arg.other.m_start /\ prev.m_end < arg.other.m_end
    /\ Len(to_vector(r)) = 2

\* C8: for a non-empty r and n > 0, the loop over r.circular(n) yields exactly n
\* values and stops; the k-th is the ((k-1) mod m)+1-th value of r, m being the
\* number of values r produces.
C8_CircularYieldsCount ==
    (InLoop("circular") /\ arg.count > 0 /\ r.m_start # r.m_end) =>
        LET values == to_vector(r)
            m == Len(values)
            n == arg.count
        IN  /\ Len(out) <= n
            /\ \A k \in 1..Len(out) : out[k] = values[((k - 1) % m) + 1]
            /\ (Len(out) = n) <=> circular_range_iterator_eq(it, last)
            /\ (pc = "done") => Len(out) = n

\* C8 witness: a finished circular loop that wrapped back to start
C8_Witness ==
    /\ InLoop("circular") /\ pc = "done"
    /\ Len(to_vector(r)) = 2 /\ Len(out) = 3 /\ out[3] = r.m_start

\* C9: every range the operations produce has stored step 0 exactly when
\* start == end, a positive step when start < end and a negative one when
\* start > end.
C9_StepAgreesWithDirection ==
    /\ StepAgrees(r)
    /\ Called("swap") => StepAgrees(arg.right)

\* C9 witness: a descending range scaled by a negative factor
C9_Witness ==
    /\ Called("scale") /\ arg.factor < 0
    /\ prev.m_step < 0 /\ r.m_step > 0

\* C10: the loop over patterned_range(start, end) with the default pattern
\* function terminates; stated for start < end: each application of the pattern
\* moves the cursor strictly toward end, so the loop yields at most end - start
\* values, and they are the values of range(start, end, 1).
C10_DefaultPatternTerminates ==
    (InLoop("patterned") /\ arg.pattern_fun = "default" /\ r.m_start < r.m_end) =>
        /\ Len(out) <= r.m_end - r.m_start
        /\ IsPrefix(out, to_vector(reset(r.m_start, r.m_end, 1)))
        /\ (pc = "done") => out = to_vector(reset(r.m_start, r.m_end, 1))

====
